---- MODULE Spec2Model ----
(***************************************************************************)
(* The xv6 console line discipline (kernel/console.c): the input ring      *)
(* cons.{buf,r,w,e}, the interrupt-side editor consoleintr and the         *)
(* blocking reader consoleread, serialised by cons.lock.                    *)
(***************************************************************************)
EXTENDS Integers, Sequences, FiniteSets, TLC

(* ------------------------------ bounds -------------------------------- *)
\* Ring capacity used for checking (the source has 128).
INPUT_BUF_SIZE == 3
\* No further input interrupt is taken once this many bytes were appended.
MaxTyped == 4
\* Number of reader processes the state is dimensioned for.
NumProcs == 2

(* ------------------------- program constants -------------------------- *)
\* cons.r, cons.w, cons.e are uint: arithmetic modulo UintRange.  The range
\* is scaled with the capacity: like 2^32 for 128 it is a multiple of the
\* capacity and several times as large.
\* Variant: a range the capacity does not divide.
UintRangeOdd == 4 * INPUT_BUF_SIZE + 1
UintRange == 4 * INPUT_BUF_SIZE
BACKSPACE == 256
CtrlD == 4
CtrlH == 8
CtrlP == 16
CtrlU == 21
Newline == 10
CarriageReturn == 13
Delete == 127
Space == 32
CharA == 97
CharB == 98

\* Raw characters the uart interrupt may hand to consoleintr.
InputChars ==
  {0, CtrlD, CtrlH, Newline, CarriageReturn, CtrlP, CtrlU, CharA, CharB, Delete}
\* Lengths a read() may request.
MaxRead == INPUT_BUF_SIZE + 1
ReadLens == {0, 1, 2, INPUT_BUF_SIZE, MaxRead}

Procs == 1 .. NumProcs
\* Values of lock: free, held by the interrupt context, or held by a process.
LockFree == 0
IntrCtx == NumProcs + 1

VARIABLES
  cons,      \* [buf, r, w, e]: the ring and its three uint cursors
  lock,      \* holder of cons.lock
  pc,        \* per process: position in consoleread
  n,         \* per process: consoleread's n (bytes still wanted)
  target,    \* per process: consoleread's target
  out,       \* per process: bytes copied out to dst so far in this call
  ret,       \* per process: value returned by the last call
  why,       \* per process: the exit the last call took
  r0,        \* per process: consumed cursor at call entry
  killed,    \* per process: p->killed
  ipc,       \* consoleintr: "idle" or "locked" (between acquire and the switch)
  trace,     \* the last consoleintr run: its input, then its effects in order
  ring,      \* [consumed, committed, pending]: the cursors as unbounded counts
  line,      \* the line being typed (accepted, not erased, not committed)
  hist,      \* every committed byte, in commit order (until faulted)
  ends,      \* the commits so far: [at: committed after it, by: its last byte]
  delivered, \* bytes returned by consoleread calls, in order (until faulted)
  faulted,   \* a copy-out has failed or a read was cancelled
  wr         \* the consolewrite call: [pc, src, n, i, sent, ret, failed]

vars == <<cons, lock, pc, n, target, out, ret, why, r0, killed, ipc, trace,
          ring, line, hist, ends, delivered, faulted, wr>>
readerVars == <<pc, n, target, out, ret, why, r0>>
ghostIntr == <<line, hist, ends>>

(* ------------------------------ helpers ------------------------------- *)
U(x) == x % UintRange
Slot(i) == U(i) % INPUT_BUF_SIZE
Ev(e, a) == [ev |-> e, a |-> a]
Erase3 == <<Ev("uart", CtrlH), Ev("uart", Space), Ev("uart", CtrlH)>>
NoEof(s) == SelectSeq(s, LAMBDA c : c # CtrlD)
IsPrefix(s, t) == Len(s) <= Len(t) /\ SubSeq(t, 1, Len(s)) = s
DropLast(s) == IF s = <<>> THEN s ELSE SubSeq(s, 1, Len(s) - 1)

\* consputc: BACKSPACE becomes backspace, space, backspace.
Consputc(tr, c) ==
  IF c = BACKSPACE THEN tr \o Erase3 ELSE Append(tr, Ev("uart", c))

(* ------------------------------ initial ------------------------------- *)
Init ==
  /\ cons = [buf |-> [i \in 0 .. INPUT_BUF_SIZE - 1 |-> 0], r |-> 0, w |-> 0, e |-> 0]
  /\ lock = LockFree
  /\ pc = [p \in Procs |-> "idle"]
  /\ n = [p \in Procs |-> 0]
  /\ target = [p \in Procs |-> 0]
  /\ out = [p \in Procs |-> <<>>]
  /\ ret = [p \in Procs |-> 0]
  /\ why = [p \in Procs |-> "none"]
  /\ r0 = [p \in Procs |-> 0]
  /\ killed = [p \in Procs |-> FALSE]
  /\ ipc = "idle"
  /\ trace = <<>>
  /\ ring = [consumed |-> 0, committed |-> 0, pending |-> 0]
  /\ line = <<>>
  /\ hist = <<>>
  /\ ends = {}
  /\ delivered = <<>>
  /\ faulted = FALSE
  /\ wr = [pc |-> "idle", src |-> <<>>, n |-> 0, i |-> 0, sent |-> <<>>,
           ret |-> 0, failed |-> -1]

(* ------------------- the cursors as unbounded counts ------------------ *)
\* Signed distance from uint value a to uint value b (shortest way round).
SignedDiff(a, b) ==
  LET d == U(b - a) IN IF 2 * d >= UintRange THEN d - UintRange ELSE d
\* ring follows the uint cursors of cs: each count moves by the signed
\* change of its cursor relative to the old cursors old.
Track(rg, old, cs) ==
  [consumed  |-> rg.consumed  + SignedDiff(old.r, cs.r),
   committed |-> rg.committed + SignedDiff(old.w, cs.w),
   pending   |-> rg.pending   + SignedDiff(old.e, cs.e)]

(* ---------------------------- consoleintr ----------------------------- *)
\* Variant: the capacity test off by one.
HasRoomOffByOne(cs) == U(cs.e - cs.r) <= INPUT_BUF_SIZE
\* cons.e-cons.r < INPUT_BUF_SIZE
HasRoom(cs) == U(cs.e - cs.r) < INPUT_BUF_SIZE
\* c = (c == '\r') ? '\n' : c
Normalize(c) == IF c = CarriageReturn THEN Newline ELSE c
\* Variant: the cursor is incremented before it is used as the index.
StorePreIncrement(cs, c) ==
  [cs EXCEPT !.buf[Slot(cs.e + 1)] = c, !.e = U(cs.e + 1)]
\* cons.buf[cons.e++ % INPUT_BUF_SIZE] = c
Store(cs, c) == [cs EXCEPT !.buf[Slot(cs.e)] = c, !.e = U(cs.e + 1)]
\* Variant: a full buffer does not force a commit.
MustCommitNoFull(cs, c) == c = Newline \/ c = CtrlD
\* c == '\n' || c == C('D') || cons.e-cons.r == INPUT_BUF_SIZE
MustCommit(cs, c) ==
  c = Newline \/ c = CtrlD \/ U(cs.e - cs.r) = INPUT_BUF_SIZE
\* cons.w = cons.e
Commit(cs) == [cs EXCEPT !.w = cs.e]
\* Variant: the erase test compares with the read cursor.
CanEraseUnread(cs) == cs.e # cs.r
\* cons.e != cons.w
CanErase(cs) == cs.e # cs.w
\* Variant: the loop looks at the slot at cons.e, not the one before it.
KillMoreWrongSlot(cs) == cs.e # cs.w /\ cs.buf[Slot(cs.e)] # Newline
\* Variant: the loop runs down to the read cursor.
KillMoreUnread(cs) == cs.e # cs.r /\ cs.buf[Slot(cs.e - 1)] # Newline
\* cons.e != cons.w && cons.buf[(cons.e-1) % INPUT_BUF_SIZE] != '\n'
KillMore(cs) == cs.e # cs.w /\ cs.buf[Slot(cs.e - 1)] # Newline
\* cons.e--
EraseOne(cs) == [cs EXCEPT !.e = U(cs.e - 1)]

\* st = [cons, trace, line, hist, wake, last]: the state consoleintr works
\* on.  line and hist record what was typed; wake says wakeup(&cons.r) was
\* called, last is the byte stored by this run.
StErase(st) ==
  [st EXCEPT !.cons = EraseOne(st.cons),
             !.trace = Consputc(st.trace, BACKSPACE),
             !.line = DropLast(st.line)]
StAppend(st, c) ==
  [st EXCEPT !.cons = Store(st.cons, c),
             !.trace = Append(st.trace, Ev("store", c)),
             !.line = Append(st.line, c),
             !.last = c]
\* Variant: the commit forgets wakeup(&cons.r).
StCommitNoWakeup(st) ==
  [st EXCEPT !.cons = Commit(st.cons),
             !.trace = Append(st.trace, Ev("commit", 0)),
             !.hist = IF faulted THEN <<>> ELSE st.hist \o st.line,
             !.line = <<>>]
\* cons.w = cons.e; wakeup(&cons.r)
StCommit(st) ==
  [st EXCEPT !.cons = Commit(st.cons),
             !.trace = st.trace \o <<Ev("commit", 0), Ev("wakeup", 0)>>,
             !.hist = IF faulted THEN <<>> ELSE st.hist \o st.line,
             !.line = <<>>,
             !.wake = TRUE]

\* case C('U'): the kill-line loop.
RECURSIVE KillLine(_)
KillLine(st) == IF KillMore(st.cons) THEN KillLine(StErase(st)) ELSE st

\* case C('H'), case '\x7f'.
Backspace(st) == IF CanErase(st.cons) THEN StErase(st) ELSE st

\* Variant: the byte is stored before it is echoed.
DefaultStoreThenEcho(st, c) ==
  IF c # 0 /\ HasRoom(st.cons)
  THEN LET c1 == Normalize(c)
           s1 == StAppend(st, c1)
           s2 == [s1 EXCEPT !.trace = Consputc(s1.trace, c1)]
       IN IF MustCommit(s2.cons, c1) THEN StCommit(s2) ELSE s2
  ELSE st
\* default: accept, echo, store, maybe commit and wake the reader.
Default(st, c) ==
  IF c # 0 /\ HasRoom(st.cons)
  THEN LET c1 == Normalize(c)
           s1 == [st EXCEPT !.trace = Consputc(st.trace, c1)]
           s2 == StAppend(s1, c1)
       IN IF MustCommit(s2.cons, c1) THEN StCommit(s2) ELSE s2
  ELSE st

\* switch(c)
Switch(st, c) ==
  CASE c = CtrlP -> [st EXCEPT !.trace = Append(st.trace, Ev("procdump", 0))]
    [] c = CtrlU -> KillLine(st)
    [] c = CtrlH \/ c = Delete -> Backspace(st)
    [] OTHER -> Default(st, c)

\* wakeup(&cons.r): every process sleeping on the channel becomes runnable.
Wakeup(pcs) ==
  [p \in Procs |-> IF pcs[p] = "sleeping" THEN "runnable" ELSE pcs[p]]

\* acquire(&cons.lock) at the entry of consoleintr, taken while fewer than
\* max bytes are pending.
IntrAcquireBelow(max) ==
  /\ ipc = "idle"
  /\ lock = LockFree
  /\ ring.pending < max
  /\ lock' = IntrCtx
  /\ ipc' = "locked"
  /\ trace' = <<>>
  /\ UNCHANGED <<cons, readerVars, killed, ring, ghostIntr, delivered, faulted, wr>>
IntrAcquire == IntrAcquireBelow(MaxTyped)

\* The switch on c and release(&cons.lock).
consoleintr(c) ==
  /\ ipc = "locked"
  /\ lock = IntrCtx
  /\ LET st == Switch([cons |-> cons, trace |-> <<Ev("intr", c)>>, line |-> line,
                       hist |-> hist,
                       wake |-> FALSE, last |-> 0], c)
     IN /\ cons' = st.cons
        /\ trace' = st.trace
        /\ line' = st.line
        /\ hist' = st.hist
        /\ ring' = Track(ring, cons, st.cons)
        /\ ends' = IF st.wake
                   THEN ends \cup {[at |-> ring'.committed, by |-> st.last]}
                   ELSE ends
        /\ pc' = IF st.wake THEN Wakeup(pc) ELSE pc
  /\ lock' = LockFree
  /\ ipc' = "idle"
  /\ UNCHANGED <<n, target, out, ret, why, r0, killed, delivered, faulted, wr>>

(* ---------------------------- consoleread ----------------------------- *)
\* cons.r == cons.w
Empty(cs) == cs.r = cs.w
\* Variant: the pop reads the slot after the one it consumes.
PeekNext(cs) == cs.buf[Slot(cs.r + 1)]
\* cons.buf[cons.r % INPUT_BUF_SIZE], the byte the pop reads
Peek(cs) == cs.buf[Slot(cs.r)]
\* cons.r++
Pop(cs) == [cs EXCEPT !.r = U(cs.r + 1)]
\* Variant: the end-of-file marker is never saved for the next call.
SaveEofNever(cs, nn, tg) == cs
\* Variant: the marker is also saved by a call that has delivered nothing.
SaveEofAlways(cs, nn, tg) == [cs EXCEPT !.r = U(cs.r - 1)]
\* if(n < target) cons.r--   (save ^D for next time)
SaveEof(cs, nn, tg) == IF nn < tg THEN [cs EXCEPT !.r = U(cs.r - 1)] ELSE cs
\* return target - n
RetVal(tg, nn) == tg - nn
\* Variant: the read does not stop at a newline.
IsLineEndNever(c) == FALSE
\* c == '\n': a whole line has arrived
IsLineEnd(c) == c = Newline
\* Variant: the kill flag is not looked at.
IgnoreKilled(kl) == FALSE
\* killed(myproc())
CheckKilled(kl) == kl

\* Outcome of one pass through the body of while(n > 0), entered at the top
\* (top) or at the inner while after sleep returned.  kl is p->killed, ok
\* the result of either_copyout.  to is where control goes next, why the
\* exit taken when the call returns.
Go(cs, nn, o, to, rv, reason) ==
  [cons |-> cs, n |-> nn, out |-> o, to |-> to, ret |-> rv, why |-> reason]
\* Variant: with nothing committed, a call that has delivered bytes returns
\* them instead of waiting for more.
OnEmptyShortRead(cs, nn, tg, o, top, kl) ==
  IF nn < tg
  THEN Go(cs, nn, o, "done", RetVal(tg, nn), "count")
  ELSE IF CheckKilled(kl)
  THEN Go(cs, nn, o, "done", -1, IF top THEN "killed" ELSE "wokenkilled")
  ELSE Go(cs, nn, o, "sleeping", 0, "none")
\* Variant: the kill flag is honoured only by a call that has delivered
\* nothing yet.
OnEmptyCancelOnlyFresh(cs, nn, tg, o, top, kl) ==
  IF CheckKilled(kl) /\ nn = tg
  THEN Go(cs, nn, o, "done", -1, IF top THEN "killed" ELSE "wokenkilled")
  ELSE Go(cs, nn, o, "sleeping", 0, "none")
\* The body of while(cons.r == cons.w): return -1 if killed, else sleep.
OnEmpty(cs, nn, tg, o, top, kl) ==
  IF CheckKilled(kl)
  THEN Go(cs, nn, o, "done", -1, IF top THEN "killed" ELSE "wokenkilled")
  ELSE Go(cs, nn, o, "sleeping", 0, "none")
\* Variant: a failed copy is reported as an error.
CopyFailedReturnsError(cs, nn, tg, o) == Go(cs, nn, o, "done", -1, "copyfail")
\* Variant: a failed copy puts the byte back (cons.r--).
CopyFailedRequeue(cs, nn, tg, o) ==
  Go([cs EXCEPT !.r = U(cs.r - 1)], nn, o, "done", RetVal(tg, nn), "copyfail")
\* either_copyout(...) == -1: break, with the byte already popped (cs is
\* the ring after the pop); then release and return target - n.
CopyFailed(cs, nn, tg, o) == Go(cs, nn, o, "done", RetVal(tg, nn), "copyfail")
ReadStep(cs, nn, tg, o, top, kl, ok) ==
  IF top /\ ~(nn > 0)
  THEN Go(cs, nn, o, "done", RetVal(tg, nn), "count")
  ELSE IF Empty(cs)
  THEN OnEmpty(cs, nn, tg, o, top, kl)
  ELSE LET c == Peek(cs)
           cs1 == Pop(cs)
       IN IF c = CtrlD
          THEN Go(SaveEof(cs1, nn, tg), nn, o, "done", RetVal(tg, nn), "eof")
          ELSE IF ~ok
          THEN CopyFailed(cs1, nn, tg, o)
          ELSE IF IsLineEnd(c)
          THEN Go(cs1, nn - 1, Append(o, c), "done", RetVal(tg, nn - 1), "newline")
          ELSE Go(cs1, nn - 1, Append(o, c), "outer", 0, "none")

\* Variant: the cancelled exit returns without release(&cons.lock).
LockAfterNoReleaseOnKill(p, to, reason) ==
  IF to = "outer" \/ reason \in {"killed", "wokenkilled"} THEN p ELSE LockFree
\* Holder of cons.lock after a pass: kept across the loop; given up by
\* release(&cons.lock) on both returns and by sleep(&cons.r, &cons.lock).
LockAfter(p, to, reason) == IF to = "outer" THEN p ELSE LockFree

\* What the caller of read() was given: the first rv bytes of its buffer.
Given(o, rv) == IF rv > 0 THEN SubSeq(o, 1, rv) ELSE <<>>

\* Entry of consoleread(user_dst, dst, len): target = n; acquire(&cons.lock).
ReadCall(p, len) ==
  /\ pc[p] \in {"idle", "done"}
  /\ lock = LockFree
  /\ lock' = p
  /\ pc' = [pc EXCEPT ![p] = "outer"]
  /\ n' = [n EXCEPT ![p] = len]
  /\ target' = [target EXCEPT ![p] = len]
  /\ out' = [out EXCEPT ![p] = <<>>]
  /\ ret' = [ret EXCEPT ![p] = 0]
  /\ why' = [why EXCEPT ![p] = "none"]
  /\ r0' = [r0 EXCEPT ![p] = ring.consumed]
  /\ UNCHANGED <<cons, killed, ipc, trace, ring, ghostIntr, delivered, faulted, wr>>

\* One pass of the loop of consoleread by the lock holder p; it ends at the
\* loop top again, in sleep() (lock released), or with the return (lock
\* released).
ReadLoop(p, ok) ==
  /\ pc[p] \in {"outer", "inner"}
  /\ lock = p
  /\ LET s == ReadStep(cons, n[p], target[p], out[p], pc[p] = "outer",
                       killed[p], ok)
     IN /\ cons' = s.cons
        /\ ring' = Track(ring, cons, s.cons)
        /\ n' = [n EXCEPT ![p] = s.n]
        /\ out' = [out EXCEPT ![p] = s.out]
        /\ pc' = [pc EXCEPT ![p] = s.to]
        /\ ret' = [ret EXCEPT ![p] = s.ret]
        /\ why' = [why EXCEPT ![p] = s.why]
        /\ lock' = LockAfter(p, s.to, s.why)
        /\ faulted' = (faulted \/ s.why \in {"copyfail", "killed", "wokenkilled"})
        /\ delivered' = IF faulted' THEN <<>>
                        ELSE IF s.to = "done" THEN delivered \o Given(s.out, s.ret)
                        ELSE delivered
        /\ hist' = IF faulted' THEN <<>> ELSE hist
  /\ UNCHANGED <<target, r0, killed, ipc, trace, line, ends, wr>>

\* sleep() returning in a woken process: acquire(lk) again, back in the
\* inner while.
ReadWake(p) ==
  /\ pc[p] = "runnable"
  /\ lock = LockFree
  /\ lock' = p
  /\ pc' = [pc EXCEPT ![p] = "inner"]
  /\ UNCHANGED <<cons, n, target, out, ret, why, r0, killed, ipc, trace, ring,
                 ghostIntr, delivered, faulted, wr>>

\* kill(pid): p->killed = 1, and a sleeping victim is made runnable.
Kill(p) ==
  /\ ~killed[p]
  /\ killed' = [killed EXCEPT ![p] = TRUE]
  /\ pc' = [pc EXCEPT ![p] = IF pc[p] = "sleeping" THEN "runnable" ELSE pc[p]]
  /\ UNCHANGED <<cons, lock, n, target, out, ret, why, r0, ipc, trace, ring,
                 ghostIntr, delivered, faulted, wr>>

(* ---------------------------- consolewrite ---------------------------- *)
\* User buffers a write() may pass, and the lengths it may ask for.
WriteSrcs == {<<CharA, CharB, Newline>>, <<Newline, CharA, CharA>>}
WriteLens == {-1, 0, 1, 2, 3}

\* i < n
WriteMore(w) == w.i < w.n
\* Variant: the byte goes to uartputc before the result of the copy is
\* looked at.
WriteBodySendFirst(w, ok) ==
  IF ~ok
  THEN [w EXCEPT !.pc = "done", !.ret = w.i, !.failed = w.i,
                 !.sent = Append(w.sent, w.src[w.i + 1])]
  ELSE [w EXCEPT !.sent = Append(w.sent, w.src[w.i + 1]), !.i = w.i + 1]
\* The loop body: either_copyin of byte i (ok is its result); break on
\* failure, else uartputc(c) and i++.  failed records the index whose copy
\* failed.
WriteBody(w, ok) ==
  IF ~ok
  THEN [w EXCEPT !.pc = "done", !.ret = w.i, !.failed = w.i]
  ELSE [w EXCEPT !.sent = Append(w.sent, w.src[w.i + 1]), !.i = w.i + 1]
\* One evaluation of the for loop: its test, then its body or return i.
WriteStep(w, ok) ==
  IF WriteMore(w) THEN WriteBody(w, ok) ELSE [w EXCEPT !.pc = "done", !.ret = w.i]

\* Entry of consolewrite(user_src, src, n).
WriteCall(src, len) ==
  /\ wr.pc \in {"idle", "done"}
  /\ wr' = [pc |-> "loop", src |-> src, n |-> len, i |-> 0, sent |-> <<>>,
            ret |-> 0, failed |-> -1]
  /\ UNCHANGED <<cons, lock, readerVars, killed, ipc, trace, ring, ghostIntr,
                 delivered, faulted>>
\* One pass of consolewrite's loop; it takes no lock.
WriteLoop(ok) ==
  /\ wr.pc = "loop"
  /\ wr' = WriteStep(wr, ok)
  /\ UNCHANGED <<cons, lock, readerVars, killed, ipc, trace, ring, ghostIntr,
                 delivered, faulted>>

(* --------------------------- specifications --------------------------- *)
\* One reader process and the interrupt handler.
Reader == 1

Next ==
  \/ IntrAcquire
  \/ \E c \in InputChars : consoleintr(c)
  \/ \E len \in ReadLens : ReadCall(Reader, len)
  \/ \E ok \in BOOLEAN : ReadLoop(Reader, ok)
  \/ ReadWake(Reader)
  \/ Kill(Reader)

Spec == Init /\ [][Next]_vars

\* Scheduling: whoever holds the spinlock keeps running until it gives the
\* lock up (the interrupt handler and the reader's loop do not wait while
\* holding it), and a runnable reader spinning in acquire() gets the lock
\* at one of the infinitely many moments it is free.
Fairness ==
  /\ WF_vars(\E c \in InputChars : consoleintr(c))
  /\ WF_vars(\E ok \in BOOLEAN : ReadLoop(Reader, ok))
  /\ SF_vars(ReadWake(Reader))
\* The fair specification takes one input byte per branch of consoleintr's
\* switch ('a' for the ordinary bytes, control-h for both erase keys).
LiveChars == InputChars \ {CharB, Delete}
LiveNext ==
  \/ IntrAcquire
  \/ \E c \in LiveChars : consoleintr(c)
  \/ \E len \in ReadLens : ReadCall(Reader, len)
  \/ \E ok \in BOOLEAN : ReadLoop(Reader, ok)
  \/ ReadWake(Reader)
  \/ Kill(Reader)
FairSpec == Init /\ [][LiveNext]_vars /\ Fairness

\* A writer process next to the interrupt handler and one reader.
WriteChars == {Newline, CharA, CtrlD, CtrlH}
WriteNext ==
  \/ \E src \in WriteSrcs, len \in WriteLens : WriteCall(src, len)
  \/ \E ok \in BOOLEAN : WriteLoop(ok)
  \/ IntrAcquire
  \/ \E c \in WriteChars : consoleintr(c)
  \/ ReadCall(Reader, MaxRead)
  \/ ReadLoop(Reader, TRUE)
  \/ ReadWake(Reader)
WriteSpec == Init /\ [][WriteNext]_vars

\* A session long enough for the uint cursors to wrap: newlines are typed
\* and read until pending is WrapStart, just below UintRange, then any input
\* is typed until pending is WrapEnd, past the wrap.
WrapStart == UintRange - 2
WrapEnd == UintRange + 2
WrapChars ==
  IF ring.pending < WrapStart THEN {Newline}
  ELSE {Newline, CarriageReturn, CharA, CharB, CtrlD, CtrlH, CtrlU}
WrapLens == IF ring.pending < WrapStart THEN {1} ELSE {1, MaxRead}
WrapNext ==
  \/ IntrAcquireBelow(WrapEnd)
  \/ \E c \in WrapChars : consoleintr(c)
  \/ \E len \in WrapLens : ReadCall(Reader, len)
  \/ ReadLoop(Reader, TRUE)
  \/ ReadWake(Reader)
WrapSpec == Init /\ [][WrapNext]_vars

\* Two reader processes in consoleread at the same time, and the interrupt
\* handler.
Readers == {1, 2}
MultiChars == {Newline, CharA, CtrlD}
MultiLens == {1, MaxRead}
MultiNext ==
  \/ IntrAcquire
  \/ \E c \in MultiChars : consoleintr(c)
  \/ \E p \in Readers, len \in MultiLens : ReadCall(p, len)
  \/ \E p \in Readers : ReadLoop(p, TRUE)
  \/ \E p \in Readers : ReadWake(p)
MultiSpec == Init /\ [][MultiNext]_vars

(* ------------------------------- claims ------------------------------- *)
InCall(p) == pc[p] \in {"outer", "inner", "sleeping", "runnable"}
Returned(p) == pc[p] = "done"
\* The end-of-file marker is the next byte a read would pop.
EofAtHead == ~Empty(cons) /\ Peek(cons) = CtrlD
\* A step of consoleread's loop by the lock holder p (not a kill of p).
LoopStep(p) == lock = p /\ pc[p] \in {"outer", "inner"} /\ killed' = killed
\* Such a step pops a byte (it passes n > 0 and finds the ring non-empty).
PopStep(p) == LoopStep(p) /\ (pc[p] = "inner" \/ n[p] > 0) /\ ~Empty(cons)

\* C1: in every reachable state the cursors, taken as unbounded counts of
\* which cons.r, cons.w and cons.e are the residues, satisfy
\* consumed <= committed <= pending <= consumed + INPUT_BUF_SIZE.
C1_CursorOrder ==
  /\ ring.consumed <= ring.committed
  /\ ring.committed <= ring.pending
  /\ ring.pending <= ring.consumed + INPUT_BUF_SIZE
  /\ cons.r = U(ring.consumed)
  /\ cons.w = U(ring.committed)
  /\ cons.e = U(ring.pending)
\* A read has just pushed the end-of-file marker back (cons.r--) while the
\* ring is full.
C1_Witness ==
  /\ Returned(Reader) /\ why[Reader] = "eof" /\ ret[Reader] > 0
  /\ ring.pending = ring.consumed + INPUT_BUF_SIZE

\* Everything handed to the reader so far, the running call included.
Handed == delivered \o (IF InCall(Reader) THEN out[Reader] ELSE <<>>)
\* C2: while no copy-out has failed and no read was cancelled, the bytes
\* handed out by consoleread are a prefix of the committed bytes without the
\* end-of-file markers, and equal to them once the ring is drained.
C2_NoLossNoDup ==
  ~faulted =>
    /\ IsPrefix(Handed, NoEof(hist))
    /\ Len(hist) = ring.committed
    /\ (Empty(cons) => Handed = NoEof(hist))
\* "ab\n" was typed and one read of at least 3 bytes returned exactly it.
C2_Witness ==
  /\ ~faulted /\ hist = <<CharA, CharB, Newline>>
  /\ Returned(Reader) /\ target[Reader] >= 3 /\ ret[Reader] = 3
  /\ delivered = <<CharA, CharB, Newline>>

\* C3: a call that returns a count returns between 0 and the requested
\* length, exactly the number of bytes it copied out; it copies out at most
\* one newline, and a newline is the last byte: the call has returned with it.
C3_OneLine ==
  \A p \in Procs :
    /\ (Returned(p) /\ ret[p] # -1) =>
         (0 <= ret[p] /\ ret[p] <= target[p] /\ ret[p] = Len(out[p]))
    /\ \A i \in 1 .. Len(out[p]) :
         out[p][i] = Newline => (i = Len(out[p]) /\ Returned(p))
    /\ Len(out[p]) <= target[p]
\* A call stopped at a newline although it wanted more and more committed
\* bytes are waiting.
C3_Witness ==
  /\ Returned(Reader) /\ why[Reader] = "newline"
  /\ ret[Reader] < target[Reader] /\ ~Empty(cons)

\* C4: a call that pops the end-of-file marker after delivering bytes returns
\* their count and leaves the marker where it was; a call that pops it having
\* delivered nothing returns 0 at once and consumes it; the marker stays the
\* next byte to pop until such a call consumes it, so the call after a short
\* read returns 0 without sleeping.
C4_Step(p) ==
  /\ (PopStep(p) /\ EofAtHead /\ n[p] < target[p]) =>
       /\ pc'[p] = "done" /\ lock' = LockFree
       /\ ret'[p] = target[p] - n[p] /\ ret'[p] > 0 /\ ret'[p] = Len(out'[p])
       /\ cons' = cons /\ ring' = ring
  /\ (PopStep(p) /\ EofAtHead /\ n[p] = target[p]) =>
       /\ pc'[p] = "done" /\ lock' = LockFree
       /\ ret'[p] = 0
       /\ cons'.r = U(cons.r + 1) /\ ring'.consumed = ring.consumed + 1
  /\ (EofAtHead /\ ~(PopStep(p) /\ n[p] = target[p])) =>
       (EofAtHead' /\ cons'.r = cons.r)
  /\ (Returned(p) /\ why[p] = "eof" /\ ret[p] > 0) => EofAtHead
C4_EofPairing == [][C4_Step(Reader)]_vars
\* "ab" and the marker were typed; a first read returned 2 and the next
\* read has returned 0, consuming the marker.
C4_Witness ==
  /\ ~faulted /\ hist = <<CharA, CharB, CtrlD>> /\ delivered = <<CharA, CharB>>
  /\ Returned(Reader) /\ why[Reader] = "eof" /\ ret[Reader] = 0
  /\ target[Reader] > 2 /\ Empty(cons)

\* The reader has consumed everything up to a commit that ended with
\* neither a newline nor the end-of-file marker (the buffer had become full).
ForcedEnd(e) == e.by # Newline /\ e.by # CtrlD
\* A commit boundary lies strictly inside the bytes p's call has copied out.
Inside(p, e) == r0[p] < e.at /\ e.at < r0[p] + Len(out[p])

\* C5 as claimed: a call asking for more than INPUT_BUF_SIZE bytes that has
\* drained a buffer-full commit returns there instead of waiting, and the
\* bytes of one call never come from more than one commit.
C5_AsClaimed ==
  \A p \in Procs :
    /\ (Len(out[p]) = INPUT_BUF_SIZE /\ target[p] > INPUT_BUF_SIZE /\ Empty(cons)
          /\ \E e \in ends : e.at = r0[p] + INPUT_BUF_SIZE /\ ForcedEnd(e))
         => pc[p] # "sleeping"
    /\ \A e \in ends : ~Inside(p, e)

\* C5 (amended): a buffer-full commit makes its bytes readable without a
\* newline or marker, but it does not end a call: a call returns fewer bytes
\* than requested only after a newline, at the end-of-file marker or on a
\* failed copy; with bytes committed it never waits, and with none (and not
\* killed) it suspends whatever it has delivered.  So one call's bytes may
\* span commits, and every commit boundary inside them is a buffer-full one.
C5_State(p) ==
  /\ (Returned(p) /\ 0 <= ret[p] /\ ret[p] < target[p]) =>
       \/ (ret[p] > 0 /\ out[p][ret[p]] = Newline)
       \/ why[p] \in {"eof", "copyfail"}
  /\ \A e \in ends : Inside(p, e) => ForcedEnd(e)
C5_Step(p) ==
  /\ PopStep(p) => pc'[p] # "sleeping"
  /\ (LoopStep(p) /\ (pc[p] = "inner" \/ n[p] > 0) /\ Empty(cons) /\ ~killed[p])
       => (pc'[p] = "sleeping" /\ lock' = LockFree /\ out' = out /\ cons' = cons)
C5_ForcedCommit ==
  [][C5_State(Reader) /\ C5_State(Reader)' /\ C5_Step(Reader)]_vars
\* The reader asked for more than the capacity, drained a buffer-full commit
\* and sleeps with those bytes delivered and no result yet.
C5_Witness ==
  /\ pc[Reader] = "sleeping" /\ target[Reader] > INPUT_BUF_SIZE
  /\ Len(out[Reader]) = INPUT_BUF_SIZE /\ r0[Reader] = 0
  /\ \E e \in ends : e.at = INPUT_BUF_SIZE /\ ForcedEnd(e)

C6_Step(p) ==
  /\ (LoopStep(p) /\ pc[p] = "inner" /\ killed[p] /\ Empty(cons)) =>
       /\ pc'[p] = "done" /\ ret'[p] = -1 /\ lock' = LockFree
       /\ cons' = cons /\ ring' = ring /\ out' = out
  /\ (LoopStep(p) /\ pc[p] = "inner" /\ killed[p] /\ ~Empty(cons)) =>
       /\ pc'[p] # "sleeping" /\ ret'[p] # -1
       /\ ring'.consumed >= ring.consumed
  /\ (pc[p] \in {"sleeping", "runnable"} /\ pc'[p] # pc[p] /\ pc'[p] # "runnable")
       => (pc[p] = "runnable" /\ pc'[p] = "inner" /\ lock' = p
           /\ cons' = cons /\ ring' = ring)
IntrDone(c) == ipc = "locked" /\ ipc' = "idle" /\ trace'[1] = Ev("intr", c)
Effects(tr) == Tail(tr)
RECURSIVE Erases(_)
Erases(k) == IF k <= 0 THEN <<>> ELSE Erase3 \o Erases(k - 1)

\* C7: kill-line leaves pending = committed, changes neither committed nor
\* consumed nor the buffer, wakes nobody, and emits exactly one
\* backspace-echo per erased byte (none, changing nothing, if none pending).
C7_Step ==
  IntrDone(CtrlU) =>
    /\ cons'.e = cons'.w /\ ring'.pending = ring'.committed
    /\ cons'.w = cons.w /\ ring'.committed = ring.committed
    /\ cons'.r = cons.r /\ ring'.consumed = ring.consumed
    /\ cons'.buf = cons.buf /\ pc' = pc
    /\ Effects(trace') = Erases(ring.pending - ring.committed)
    /\ (ring.pending = ring.committed => (cons' = cons /\ Effects(trace') = <<>>))
C7_KillLine == [][C7_Step]_vars
\* Kill-line has just erased two pending bytes.
C7_Witness ==
  /\ ipc = "idle" /\ trace = <<Ev("intr", CtrlU)>> \o Erases(2)
  /\ cons.e = cons.w

Ordinary(c) == c \notin {CtrlP, CtrlU, CtrlH, Delete}
\* The byte (carriage return as newline) went to the old pending slot.
Appended(c) ==
  /\ cons'.e = U(cons.e + 1) /\ ring'.pending = ring.pending + 1
  /\ cons'.buf = [cons.buf EXCEPT ![Slot(cons.e)] = Normalize(c)]
  /\ cons'.r = cons.r
\* Nothing happened: no store, no echo, no commit, no wakeup.
Dropped ==
  /\ cons' = cons /\ ring' = ring /\ Effects(trace') = <<>>
  /\ pc' = pc /\ line' = line /\ hist' = hist /\ ends' = ends

\* C8 as claimed: every ordinary byte is appended iff pending - consumed <
\* INPUT_BUF_SIZE.
C8_AsClaimed ==
  [][\A c \in InputChars : (Ordinary(c) /\ IntrDone(c)) =>
       IF ring.pending - ring.consumed < INPUT_BUF_SIZE
       THEN Appended(c) ELSE Dropped]_vars

\* C8 (amended): an ordinary byte other than NUL is appended (carriage
\* return stored as newline) iff pending - consumed < INPUT_BUF_SIZE; at
\* pending - consumed = INPUT_BUF_SIZE it is dropped, and a NUL byte (0) is
\* always dropped: nothing stored, echoed, committed or signalled.
C8_Acceptance ==
  [][\A c \in InputChars : (Ordinary(c) /\ IntrDone(c)) =>
       IF c # 0 /\ ring.pending - ring.consumed < INPUT_BUF_SIZE
       THEN Appended(c) ELSE Dropped]_vars
\* An ordinary byte has just been dropped at a full ring.
C8_Witness ==
  /\ ipc = "idle" /\ trace = <<Ev("intr", CharA)>>
  /\ ring.pending - ring.consumed = INPUT_BUF_SIZE

\* A committed newline or end-of-file marker is waiting in [cons.r, cons.w).
LineWaiting ==
  \E i \in 0 .. U(cons.w - cons.r) - 1 :
    cons.buf[Slot(cons.r + i)] \in {Newline, CtrlD}

\* C9: a sleeping (suspended, not yet signalled) reader always has
\* consumed = committed and never holds the lock; and, with a fair scheduler,
\* a reader that was blocked when a newline or end-of-file marker got
\* committed wakes, takes the lock and returns.
C9_NoMissedWakeup ==
  /\ [](\A p \in Procs : pc[p] = "sleeping" => (Empty(cons) /\ lock # p))
  /\ ((pc[Reader] \in {"sleeping", "runnable"} /\ LineWaiting) ~> Returned(Reader))
\* The blocked reader has been made runnable by a commit that ended a line.
C9_Witness ==
  /\ pc[Reader] = "runnable" /\ ~killed[Reader] /\ LineWaiting
  /\ Ev("wakeup", 0) \in {trace[i] : i \in 1 .. Len(trace)}

\* The lock is held exactly by a context that is running and can go on.
LockHeldByRunner ==
  /\ (lock = IntrCtx) <=> (ipc = "locked")
  /\ \A p \in Procs : (lock = p) <=> (pc[p] \in {"outer", "inner"})
  /\ lock = IntrCtx => ENABLED (\E c \in InputChars : consoleintr(c))
  /\ \A p \in Procs : lock = p => ENABLED (\E ok \in BOOLEAN : ReadLoop(p, ok))
\* The interrupt handler's step ends with the lock released; a process goes
\* to sleep only from consoleread's loop, with the ring empty, giving up the
\* lock.
OnlyReaderSleeps ==
  /\ (ipc = "locked" /\ ipc' # ipc) => (ipc' = "idle" /\ lock' = LockFree)
  /\ \A p \in Procs :
       (pc'[p] = "sleeping" /\ pc[p] # "sleeping") =>
         (lock = p /\ Empty(cons) /\ lock' = LockFree)

\* C10: consoleintr never sleeps and always ends with the lock released; the
\* only suspension is the reader's, taken when consumed = committed and
\* without the lock; whoever holds the lock can always take a step, and with
\* a fair scheduler a held lock is always released again.
C10_NoDeadlock ==
  /\ []LockHeldByRunner
  /\ [][OnlyReaderSleeps]_vars
  /\ ((lock # LockFree) ~> (lock = LockFree))
\* The reader sleeps and the interrupt handler holds the lock.
C10_Witness == pc[Reader] = "sleeping" /\ lock = IntrCtx /\ ipc = "locked"

\* The count consolewrite must return: the index of the failed copy, else the
\* requested length (0 if that is not positive).
WriteCount(w) ==
  IF w.failed >= 0 THEN w.failed ELSE IF w.n <= 0 THEN 0 ELSE w.n
\* C11: consolewrite hands source bytes 0..k-1 to uartputc in order and
\* returns k, the index of the first failed copy-in or else the length (0 for
\* a length <= 0); nothing at or after a failed copy is sent; its steps never
\* change the ring, its cursors or the lock, and never wait for the lock.
C11_State ==
  /\ wr.pc = "loop" =>
       /\ wr.failed = -1 /\ wr.sent = SubSeq(wr.src, 1, wr.i)
       /\ wr.i <= WriteCount(wr)
       /\ ENABLED (\E ok \in BOOLEAN : WriteLoop(ok))
  /\ wr.pc = "done" =>
       /\ wr.ret = WriteCount(wr)
       /\ wr.sent = SubSeq(wr.src, 1, wr.ret)
C11_Step ==
  wr' # wr => (cons' = cons /\ ring' = ring /\ lock' = lock /\ ipc' = ipc)
C11_Write == []C11_State /\ [][C11_Step]_vars
\* A write of 3 bytes whose third copy-in failed has returned 2; the
\* interrupt handler holds the lock and a byte is pending.
C11_Witness ==
  /\ wr.pc = "done" /\ wr.n = 3 /\ wr.failed = 2 /\ wr.ret = 2
  /\ wr.sent = <<CharA, CharB>>
  /\ lock = IntrCtx /\ ring.pending > ring.committed

\* consoleintr has just handled one of the two erase keys.
EraseKeyDone == IntrDone(CtrlH) \/ IntrDone(Delete)
\* C12: on control-h or 0x7f, if pending > committed then pending decreases
\* by exactly one and one backspace-echo is emitted, otherwise nothing
\* changes and nothing is echoed; committed, consumed and the buffer (so the
\* bytes in [consumed, committed)) are unchanged and nobody is woken.
C12_Step ==
  EraseKeyDone =>
    /\ IF ring.pending > ring.committed
       THEN /\ ring'.pending = ring.pending - 1 /\ cons'.e = U(cons.e - 1)
            /\ Effects(trace') = Erase3
            /\ line' = DropLast(line) /\ line # <<>>
       ELSE cons' = cons /\ Effects(trace') = <<>> /\ line' = line
    /\ cons'.w = cons.w /\ ring'.committed = ring.committed
    /\ cons'.r = cons.r /\ ring'.consumed = ring.consumed
    /\ cons'.buf = cons.buf /\ pc' = pc /\ hist' = hist /\ ends' = ends
C12_Backspace == [][C12_Step]_vars
\* Delete was just pressed with nothing pending behind committed, unread
\* input: nothing was erased or echoed.
C12_Witness ==
  /\ ipc = "idle" /\ trace = <<Ev("intr", Delete)>>
  /\ ring.pending = ring.committed /\ ring.committed > ring.consumed

\* consoleintr has just appended the ordinary byte c.
Accepted(c) ==
  /\ Ordinary(c) /\ IntrDone(c)
  /\ c # 0 /\ ring.pending - ring.consumed < INPUT_BUF_SIZE
\* The byte stored for c ends a line, is the end-of-file marker, or filled
\* the buffer.
CommitDue(c) ==
  \/ Normalize(c) = Newline
  \/ Normalize(c) = CtrlD
  \/ ring'.pending - ring'.consumed = INPUT_BUF_SIZE
Woken(tr) == Ev("wakeup", 0) \in {tr[i] : i \in 1 .. Len(tr)}
\* C13: committed changes only when consoleintr appends an accepted byte;
\* it is then set to pending, with a wakeup, exactly when the byte is a
\* newline (a carriage return included), the end-of-file marker, or made
\* pending - consumed = INPUT_BUF_SIZE; any other append leaves committed
\* alone and wakes nobody, and the reader only pops below committed.
C13_Step ==
  /\ (cons'.w # cons.w \/ ring'.committed # ring.committed) =>
       \E c \in InputChars : Accepted(c) /\ CommitDue(c)
  /\ \A c \in InputChars : Accepted(c) =>
       IF CommitDue(c)
       THEN /\ cons'.w = cons'.e /\ ring'.committed = ring'.pending
            /\ ring'.committed > ring.committed
            /\ pc' = Wakeup(pc) /\ Woken(trace')
       ELSE /\ cons'.w = cons.w /\ ring'.committed = ring.committed
            /\ pc' = pc /\ ~Woken(trace')
  /\ (ipc' = "idle" /\ ipc = "locked" /\ ~(\E c \in InputChars : Accepted(c))) =>
       (pc' = pc /\ ~Woken(trace'))
  /\ \A p \in Procs : PopStep(p) => ring.consumed < ring.committed
C13_Commit == [][C13_Step]_vars
\* An ordinary byte that filled the buffer was just committed with the
\* bytes typed before it, and the sleeping reader was made runnable.
C13_Witness ==
  /\ ipc = "idle" /\ Woken(trace) /\ trace[1] = Ev("intr", CharB)
  /\ ring.committed = ring.pending /\ ring.pending = ring.consumed + INPUT_BUF_SIZE
  /\ pc[Reader] = "runnable" /\ ~killed[Reader]

\* The first effect of the run was the echo of c (carriage return echoed
\* as newline).
EchoedFirst(c) ==
  Effects(trace') # <<>> /\ Effects(trace')[1] = Ev("uart", Normalize(c))
\* C14 as claimed: every ordinary (non-NUL) byte handed to consoleintr is
\* echoed, also when the buffer is at capacity and the byte is rejected.
C14_AsClaimed ==
  [][\A c \in InputChars \ {0} : (Ordinary(c) /\ IntrDone(c)) => EchoedFirst(c)]_vars

\* C14 (amended): an accepted byte is echoed before it is stored (the echo
\* is the first effect, the store the second, nothing else before a commit);
\* a byte rejected at capacity, or a NUL, is neither echoed nor stored.
C14_Step ==
  \A c \in InputChars : (Ordinary(c) /\ IntrDone(c)) =>
    IF Accepted(c)
    THEN /\ Len(Effects(trace')) >= 2 /\ EchoedFirst(c)
         /\ Effects(trace')[2] = Ev("store", Normalize(c))
         /\ Appended(c)
    ELSE Effects(trace') = <<>> /\ cons' = cons
C14_Echo == [][C14_Step]_vars
\* A carriage return was accepted: echoed as newline, then stored, then
\* committed.
C14_Witness ==
  /\ ipc = "idle"
  /\ trace = <<Ev("intr", CarriageReturn), Ev("uart", Newline), Ev("store", Newline),
               Ev("commit", 0), Ev("wakeup", 0)>>

Cancelled(p) == Returned(p) /\ ret[p] = -1
\* C15 as claimed: a call that returned Cancelled has delivered nothing and
\* consumed is where it was at call entry.
C15_AsClaimed ==
  Cancelled(Reader) => (out[Reader] = <<>> /\ ring.consumed = r0[Reader])

\* C15 (amended): a call returns Cancelled exactly when it finds the ring
\* empty with its task killed, whatever it has delivered before; that step
\* consumes nothing and releases the lock.  A cancelled call has consumed
\* exactly the bytes it copied out (none if it was cancelled before its
\* first pop), and those bytes stay consumed: their count is not returned.
C15_State(p) ==
  /\ (InCall(p) \/ Cancelled(p)) => ring.consumed = r0[p] + Len(out[p])
  /\ Cancelled(p) => (killed[p] /\ why[p] \in {"killed", "wokenkilled"})
C15_Step(p) ==
  /\ (LoopStep(p) /\ (pc[p] = "inner" \/ n[p] > 0) /\ Empty(cons) /\ killed[p]) =>
       /\ pc'[p] = "done" /\ ret'[p] = -1 /\ lock' = LockFree
       /\ cons' = cons /\ ring' = ring /\ out' = out
  /\ (LoopStep(p) /\ pc'[p] = "done" /\ ret'[p] = -1) =>
       (Empty(cons) /\ killed[p] /\ (pc[p] = "inner" \/ n[p] > 0))
C15_Cancel ==
  [][C15_State(Reader) /\ C15_State(Reader)' /\ C15_Step(Reader)]_vars
\* A call asking for more than the capacity drained a full buffer, was
\* killed while it waited for more, and has returned -1.
C15_Witness ==
  /\ Cancelled(Reader) /\ target[Reader] > INPUT_BUF_SIZE
  /\ Len(out[Reader]) = INPUT_BUF_SIZE
  /\ ring.consumed = r0[Reader] + INPUT_BUF_SIZE

\* p's loop step popped a byte that is not the end-of-file marker.
DataPop(p) == PopStep(p) /\ Peek(cons) # CtrlD
\* The copy-out of that byte failed.
CopyFailStep(p) == DataPop(p) /\ out'[p] = out[p]
\* C16: when the copy-out of a popped byte fails, the call stops, releases
\* the lock and returns the number of bytes delivered before (never -1, the
\* failed byte not counted), and the cursors still satisfy
\* consumed <= committed <= pending <= consumed + INPUT_BUF_SIZE.
C16_Step(p) ==
  /\ DataPop(p) => (out'[p] = out[p] \/ out'[p] = Append(out[p], Peek(cons)))
  /\ CopyFailStep(p) =>
       /\ pc'[p] = "done" /\ lock' = LockFree /\ why'[p] = "copyfail"
       /\ ret'[p] = Len(out[p]) /\ ret'[p] = target[p] - n[p]
       /\ 0 <= ret'[p] /\ ret'[p] < target[p]
       /\ ring'.consumed <= ring'.committed /\ ring'.committed <= ring'.pending
       /\ ring'.pending <= ring'.consumed + INPUT_BUF_SIZE
       /\ cons'.w = cons.w /\ cons'.e = cons.e /\ cons'.buf = cons.buf
C16_CopyFailure == [][C16_Step(Reader)]_vars
\* Two bytes were delivered, the copy of the third (a committed newline)
\* failed, and the call returned 2.
C16_Witness ==
  /\ Returned(Reader) /\ why[Reader] = "copyfail" /\ ret[Reader] = 2
  /\ out[Reader] = <<CharA, CharB>> /\ ring.consumed = r0[Reader] + 3
  /\ cons.buf[Slot(cons.r - 1)] = Newline /\ lock = LockFree

\* C17 as claimed: no step makes consumed, committed or pending smaller.
C17_AsClaimed ==
  [][/\ ring'.consumed >= ring.consumed
     /\ ring'.committed >= ring.committed
     /\ ring'.pending >= ring.pending]_vars

\* C17 (amended): committed never decreases, and consumed is never smaller
\* after a step than before it: the end-of-file push-back (cons.r--) only
\* undoes the pop made just before it under the same lock.  pending is not
\* monotonic: backspace/delete lowers it by one and kill-line lowers it to
\* committed; nothing else lowers it and it never falls below committed.
C17_Step ==
  /\ ring'.consumed >= ring.consumed
  /\ ring'.committed >= ring.committed
  /\ ring'.pending >= ring'.committed
  /\ ring'.pending < ring.pending =>
       \/ EraseKeyDone /\ ring'.pending = ring.pending - 1
       \/ IntrDone(CtrlU) /\ ring'.pending = ring.committed
  /\ \A p \in Procs : (PopStep(p) /\ EofAtHead) =>
       ring'.consumed = IF n[p] < target[p] THEN ring.consumed ELSE ring.consumed + 1
C17_Cursors == [][C17_Step]_vars
\* Control-h has just taken pending from committed + 2 back to committed + 1.
C17_Witness ==
  /\ ipc = "idle" /\ trace = <<Ev("intr", CtrlH)>> \o Erase3
  /\ ring.pending = ring.committed + 1 /\ ring.committed > 0

\* C20: the byte whose copy-out fails is consumed and not put back: the
\* failing pass advances consumed past it; no step ever moves consumed back;
\* every byte a pass delivers is the one at the position consumed, which
\* the pass then advances past; and a call starts at that position.  So the
\* failed byte is never delivered and the next read starts at the following
\* byte.
C20_Step(p) ==
  /\ CopyFailStep(p) =>
       /\ ring'.consumed = ring.consumed + 1 /\ cons'.r = U(cons.r + 1)
       /\ pc'[p] = "done" /\ delivered' = <<>>
  /\ ring'.consumed >= ring.consumed
  /\ out'[p] # out[p] =>
       \/ out'[p] = <<>> /\ pc[p] \in {"idle", "done"} /\ r0'[p] = ring.consumed
       \/ /\ DataPop(p) /\ out'[p] = Append(out[p], cons.buf[Slot(cons.r)])
          /\ cons.r = U(ring.consumed) /\ ring'.consumed = ring.consumed + 1
  /\ (pc[p] \in {"idle", "done"} /\ pc'[p] = "outer") => r0'[p] = ring.consumed
C20_FailedByteConsumed == [][C20_Step(Reader)]_vars
\* "ab\n" was committed at positions 0..2, the copy of 'a' failed in the
\* first call, and the next call started at position 1 and returned "b\n".
C20_Witness ==
  /\ faulted /\ ~killed[Reader] /\ ring.committed = 3 /\ ring.consumed = 3
  /\ cons.buf[0] = CharA /\ cons.buf[1] = CharB /\ cons.buf[2] = Newline
  /\ Returned(Reader) /\ r0[Reader] = 1 /\ out[Reader] = <<CharB, Newline>>
  /\ ret[Reader] = 2

\* The same ring with its cursors moved half the uint range away.  With the
\* cursors of cs within INPUT_BUF_SIZE of the wrap, those of Shift(cs) are in
\* the middle of the range, where no cursor arithmetic overflows and uint
\* arithmetic is the arithmetic of unbounded cursors.
ShiftBy == 2 * INPUT_BUF_SIZE
Shift(cs) ==
  [cs EXCEPT !.r = U(cs.r + ShiftBy), !.w = U(cs.w + ShiftBy), !.e = U(cs.e + ShiftBy)]
NearWrap(cs) == \A x \in {cs.r, cs.w, cs.e} : U(x + INPUT_BUF_SIZE) < 2 * INPUT_BUF_SIZE
InMiddle(cs) ==
  \A x \in {cs.r, cs.w, cs.e} : INPUT_BUF_SIZE <= x /\ x < UintRange - INPUT_BUF_SIZE
\* The cursor order in plain integer arithmetic.
WideOrder(cs) == cs.r <= cs.w /\ cs.w <= cs.e /\ cs.e - cs.r <= INPUT_BUF_SIZE
\* The state consoleintr starts from, on ring cs.
IntrStart(cs, c) ==
  [cons |-> cs, trace |-> <<Ev("intr", c)>>, line |-> line, hist |-> hist,
   wake |-> FALSE, last |-> 0]

\* The differences computed modulo UintRange are the true ones and lie in
\* 0 .. INPUT_BUF_SIZE; the slots the code indexes through the uint cursors
\* hold the bytes typed: the pending line at cons.w onwards, its last byte
\* at (cons.e - 1) % INPUT_BUF_SIZE, the unread committed bytes at cons.r
\* onwards; the reader got what was committed.
C18_State ==
  /\ U(cons.e - cons.r) = ring.pending - ring.consumed
  /\ U(cons.e - cons.r) <= INPUT_BUF_SIZE
  /\ U(cons.e - cons.w) = ring.pending - ring.committed
  /\ U(cons.e - cons.w) <= INPUT_BUF_SIZE
  /\ U(cons.w - cons.r) = ring.committed - ring.consumed
  /\ Len(line) = U(cons.e - cons.w)
  /\ \A i \in 1 .. Len(line) : cons.buf[Slot(cons.w + i - 1)] = line[i]
  /\ line # <<>> => cons.buf[Slot(cons.e - 1)] = line[Len(line)]
  /\ Len(hist) = ring.committed
  /\ \A i \in 1 .. U(cons.w - cons.r) :
       cons.buf[Slot(cons.r + i - 1)] = hist[ring.consumed + i]
  /\ IsPrefix(Handed, NoEof(hist))
  /\ NearWrap(cons) => (InMiddle(Shift(cons)) /\ WideOrder(Shift(cons)))
\* Every run of consoleintr and every pass of consoleread does on the ring
\* what it does on the shifted ring: the same echoes, stores, commits and
\* wakeups, the same bytes delivered, the same return value, and cursors
\* that differ by the shift again.
C18_Step ==
  /\ (ipc = "locked" /\ ipc' = "idle") =>
       LET c == trace'[1].a
           a == Switch(IntrStart(cons, c), c)
           b == Switch(IntrStart(Shift(cons), c), c)
       IN /\ a.cons = cons' /\ a.trace = trace'
          /\ b.cons = Shift(a.cons) /\ b.trace = a.trace
          /\ b.wake = a.wake /\ b.line = a.line /\ b.hist = a.hist
  /\ \A p \in Procs : LoopStep(p) =>
       \A ok \in BOOLEAN :
         LET a == ReadStep(cons, n[p], target[p], out[p], pc[p] = "outer",
                           killed[p], ok)
             b == ReadStep(Shift(cons), n[p], target[p], out[p], pc[p] = "outer",
                           killed[p], ok)
         IN b = [a EXCEPT !.cons = Shift(a.cons)]
\* C18: with uint cursors wrapping modulo a multiple of the capacity, the
\* program behaves as with unbounded cursors, through the wrap included.
C18_Wraparound == [][C18_State /\ C18_State' /\ C18_Step]_vars
\* pending had wrapped to 0 with two bytes typed after the last commit, and
\* kill-line, looking at slot (0 - 1) % INPUT_BUF_SIZE, has erased both.
C18_Witness ==
  /\ ipc = "idle" /\ trace = <<Ev("intr", CtrlU)>> \o Erases(2)
  /\ ring.pending = UintRange - 2 /\ cons.e = UintRange - 2
  /\ cons.w = cons.e

\* Number of bytes b among those of sequence s.
Count(s, b) == Len(SelectSeq(s, LAMBDA x : x = b))
\* The bytes sitting in the buffers of the calls in progress, reader by reader.
RECURSIVE InProgress(_)
InProgress(k) ==
  IF k = 0 THEN <<>>
  ELSE InProgress(k - 1) \o (IF InCall(k) THEN out[k] ELSE <<>>)
\* The committed bytes the readers have consumed so far.
Consumed == SubSeq(hist, 1, ring.consumed)

\* Each consumed data byte is with exactly one reader: byte for byte, as
\* many were handed out as were consumed; and the cursors are in order.
C19_State ==
  /\ Len(hist) = ring.committed
  /\ \A b \in MultiChars \ {CtrlD} :
       Count(delivered \o InProgress(NumProcs), b) = Count(Consumed, b)
  /\ Count(delivered \o InProgress(NumProcs), CtrlD) = 0
  /\ ring.consumed <= ring.committed /\ ring.committed <= ring.pending
  /\ ring.pending <= ring.consumed + INPUT_BUF_SIZE
  /\ \A p \in Procs : pc[p] = "sleeping" => Empty(cons)
\* A commit's wakeup makes every sleeping reader runnable; a woken reader
\* that finds the ring empty sleeps again; a pop hands the byte at the
\* position consumed to the popping reader only and moves consumed past it;
\* consumed moves past an end-of-file marker in exactly the steps that
\* return 0 for it, and never moves back.
C19_Step ==
  /\ (ipc = "locked" /\ ipc' = "idle" /\ Woken(trace')) =>
       \A p \in Procs : pc[p] = "sleeping" => pc'[p] = "runnable"
  /\ \A p \in Procs :
       /\ (LoopStep(p) /\ pc[p] = "inner" /\ Empty(cons)) =>
            (pc'[p] = "sleeping" /\ lock' = LockFree /\ out' = out /\ cons' = cons)
       /\ DataPop(p) =>
            /\ out'[p] = Append(out[p], hist[ring.consumed + 1])
            /\ ring'.consumed = ring.consumed + 1
            /\ \A q \in Procs \ {p} : out'[q] = out[q]
       /\ (PopStep(p) /\ EofAtHead) =>
            /\ hist[ring.consumed + 1] = CtrlD /\ pc'[p] = "done" /\ out' = out
            /\ IF n[p] = target[p]
               THEN ret'[p] = 0 /\ ring'.consumed = ring.consumed + 1
               ELSE ret'[p] > 0 /\ ring'.consumed = ring.consumed
       /\ (LoopStep(p) /\ ring'.consumed # ring.consumed) => PopStep(p)
  /\ ring'.consumed >= ring.consumed
====
